---- MODULE Spec2Model ----
(***************************************************************************)
(* shapefile2db: export of ZIP Code Tabulation Area polygons to a          *)
(* relational store.  The model follows                                    *)
(*   src/shapefile2db/shape_file_exporter.py   (ShapeFileToDB)             *)
(*   src/shapefile2db/state_shape_file_exporter.py (StateShapeFileToDB)    *)
(*   src/shapefile2db/core.py                  (export_shapefile_to_db)    *)
(*   src/shapefile2db/address_db/address_database.py (AddressDatabase)     *)
(*                                                                         *)
(* Coordinates are integers counted in units of 10^-Scale degrees, so that *)
(* rounding to digit_max < Scale digits changes a value.  The tolerance    *)
(* of the simplifier is counted in steps of 0.0001 degrees.                *)
(***************************************************************************)
EXTENDS Integers, Sequences, FiniteSets, TLC

\* ------------------------------------------------------------------ bounds
\* longest feature sequence handed to an export
MaxRows == 2
\* how many store writes / chunk reads may fail in one run
MaxFailures == 1
\* how many calls of the store are made when the store runs on its own
MaxCalls == 3
\* tolerance steps that are told apart; every larger tolerance simplifies the
\* rings of the catalogue exactly as TolCap does
TolCap == 2

\* ------------------------------------------------------- program constants
DEFAULT_DIGIT_MAX == 4
DEFAULT_POINT_MAX == 100
\* read_file window; the program reads 1000 rows per chunk, the model 2, so
\* that sources of 0..MaxRows rows cover short, exact and long last windows
ROW_INCREMENT == 2
\* decimal digits of a source coordinate
Scale == 5
\* fewest coordinates of a closed ring the simplifier leaves
MinimumSize == 4

\* Python's None where an int is expected (digit_max, point_max, ids)
None == 0 - 1

RECURSIVE Pow10(_)
Pow10(n) == IF n = 0 THEN 1 ELSE 10 * Pow10(n - 1)

\* the step of the tolerance, 0.0001 degrees, in coordinate units
TOLERANCE_STEP == Pow10(Scale - 4)

\* round(x, ndigits) on a value counted in 10^-Scale: nearest multiple of
\* 10^(Scale-ndigits), ties to the even multiple; ndigits None rounds to an
\* integer number of degrees.
PyRound(x, ndigits) ==
    LET d == IF ndigits = None THEN 0 ELSE ndigits
        q == Pow10(Scale - d)
        r == x % q
        lo == x - r
    IN  IF 2 * r < q THEN lo
        ELSE IF 2 * r > q THEN lo + q
        ELSE IF (lo \div q) % 2 = 0 THEN lo ELSE lo + q

\* --------------------------------------------------------------- geometry
\* a point is <<lon, lat>> (x, y); a ring a sequence of points, first = last
Lon(p) == p[1]
Lat(p) == p[2]

SqDist(p, a) == (p[1] - a[1]) * (p[1] - a[1]) + (p[2] - a[2]) * (p[2] - a[2])
Cross(p, a, b) == (b[1] - a[1]) * (p[2] - a[2]) - (b[2] - a[2]) * (p[1] - a[1])
Dot(p, a, b) == (p[1] - a[1]) * (b[1] - a[1]) + (p[2] - a[2]) * (b[2] - a[2])

\* squared distance of p to the segment a-b as the fraction DistNum / DistDen
DistDen(a, b) == IF a = b THEN 1 ELSE SqDist(b, a)
DistNum(p, a, b) ==
    IF a = b THEN SqDist(p, a)
    ELSE IF Dot(p, a, b) <= 0 THEN SqDist(p, a) * SqDist(b, a)
    ELSE IF Dot(p, a, b) >= SqDist(b, a) THEN SqDist(p, b) * SqDist(b, a)
    ELSE Cross(p, a, b) * Cross(p, a, b)

\* index strictly between i and j of the point furthest from segment i-j
\* (the first one on a tie)
FurthestPoint(pts, i, j) ==
    CHOOSE k \in (i + 1)..(j - 1) :
        /\ \A m \in (i + 1)..(j - 1) :
              DistNum(pts[m], pts[i], pts[j]) <= DistNum(pts[k], pts[i], pts[j])
        /\ \A m \in (i + 1)..(k - 1) :
              DistNum(pts[m], pts[i], pts[j]) < DistNum(pts[k], pts[i], pts[j])

\* Douglas-Peucker on the section i..j of a ring; res holds the indices kept
\* so far.  A section is flattened when its furthest point is within tol and
\* the result cannot end with fewer than MinimumSize coordinates; otherwise
\* the left half is simplified first and its result handed to the right half.
\* (k, d, left and right each name a value of a one-element set.)
RECURSIVE SimplifySection(_, _, _, _, _, _)
SimplifySection(pts, i, j, depth, res, tol) ==
    IF i + 1 = j THEN Append(res, j)
    ELSE
      CHOOSE out \in
        { LET resultSize == IF Len(res) < 2 THEN 0 ELSE Len(res)
              tooFew == resultSize < MinimumSize /\ depth + 2 < MinimumSize
              tooFar == DistNum(pts[k], pts[i], pts[j])
                           > tol * tol * DistDen(pts[i], pts[j])
          IN  IF ~tooFew /\ ~tooFar THEN Append(res, j)
              ELSE CHOOSE right \in
                     {SimplifySection(pts, k, j, d, left, tol) :
                        left \in {SimplifySection(pts, i, k, d, res, tol)}} :
                     TRUE
          : k \in {FurthestPoint(pts, i, j)}, d \in {depth + 1} } : TRUE

SimplifyRing(ring, tol) ==
    IF Len(ring) < 3 THEN ring
    ELSE LET kept == SimplifySection(ring, 1, Len(ring), 0, <<1>>, tol)
         IN  [n \in 1..Len(kept) |-> ring[kept[n]]]

\* shapely.simplify(poly, tolerance, preserve_topology=True): every ring of
\* the polygon is simplified; tolerance is counted in steps of 0.0001
simplify(poly, tolerance) ==
    [ext |-> SimplifyRing(poly.ext, tolerance * TOLERANCE_STEP),
     ints |-> [h \in 1..Len(poly.ints) |->
                  SimplifyRing(poly.ints[h], tolerance * TOLERANCE_STEP)]]

RoundRing(ring, ndigits) ==
    [n \in 1..Len(ring) |->
        <<PyRound(ring[n][1], ndigits), PyRound(ring[n][2], ndigits)>>]

SeqMin(s) == CHOOSE x \in {s[n] : n \in 1..Len(s)} : \A m \in 1..Len(s) : x <= s[m]
SeqMax(s) == CHOOSE x \in {s[n] : n \in 1..Len(s)} : \A m \in 1..Len(s) : x >= s[m]
Lats(ring) == [n \in 1..Len(ring) |-> Lat(ring[n])]
Lons(ring) == [n \in 1..Len(ring) |-> Lon(ring[n])]


\* ------------------------------------------------------- source features
\* a text field of the attribute table: float(text) succeeds iff numeric
Num(v) == [numeric |-> TRUE, val |-> v]
NotNum == [numeric |-> FALSE, val |-> 0]

TriRing == << <<-23, 2>>, <<-3, 4>>, <<-12, 21>>, <<-23, 2>> >>
TriRingB == << <<31, 52>>, <<47, 54>>, <<38, 67>>, <<31, 52>> >>
TriRingC == << <<61, 12>>, <<78, 13>>, <<69, 28>>, <<61, 12>> >>
HexRing == << <<2, 1>>, <<21, 3>>, <<42, 1>>, <<43, 41>>, <<22, 44>>,
              <<1, 42>>, <<2, 1>> >>
HoleRing == << <<11, 22>>, <<19, 23>>, <<12, 31>>, <<11, 22>> >>

Polygon(ext, ints) == [ext |-> ext, ints |-> ints]

\* lines 116-118: the valid ZIP area criteria
ZIP_FEATURE_CODE == "G6350"
ZIP_CLASS == "B5"
ZIP_STATUS == "S"
ValidArea == [MTFCC20 |-> ZIP_FEATURE_CODE, CLASSFP20 |-> ZIP_CLASS,
              FUNCSTAT20 |-> ZIP_STATUS]

\* rows of the shapefile: ZCTA5CE20 (a string of digits), INTPTLAT20,
\* INTPTLON20 (text), geometry (Polygon or MultiPolygon) and the
\* classification fields MTFCC20, CLASSFP20, FUNCSTAT20
FTri == [zip |-> <<1, 0, 0, 0, 1>>, lat |-> Num(12), lon |-> Num(-13),
         multipolygon |-> FALSE, geoms |-> << Polygon(TriRing, << >>) >>,
         area |-> ValidArea]
FHole == [zip |-> <<0, 6, 3, 9, 0>>, lat |-> Num(23), lon |-> Num(27),
          multipolygon |-> FALSE, geoms |-> << Polygon(HexRing, <<HoleRing>>) >>,
          area |-> ValidArea]
FMulti == [zip |-> <<3, 5, 0, 0, 4>>, lat |-> Num(34), lon |-> Num(41),
           multipolygon |-> TRUE,
           geoms |-> << Polygon(TriRing, << >>), Polygon(TriRingB, << >>),
                        Polygon(TriRingC, << >>) >>,
           area |-> ValidArea]
FBad == [zip |-> <<3, 6, 0, 0, 0>>, lat |-> NotNum, lon |-> Num(17),
         multipolygon |-> FALSE, geoms |-> << Polygon(TriRingB, << >>) >>,
         area |-> ValidArea]
\* a row whose functional status is not S
FOther == [zip |-> <<1, 0, 0, 0, 2>>, lat |-> Num(19), lon |-> Num(68),
           multipolygon |-> FALSE, geoms |-> << Polygon(TriRingC, << >>) >>,
           area |-> [ValidArea EXCEPT !.FUNCSTAT20 = "N"]]
\* a MultiPolygon geometry with a single part
FOne == [zip |-> <<1, 0, 0, 0, 3>>, lat |-> Num(58), lon |-> Num(39),
         multipolygon |-> TRUE, geoms |-> << Polygon(TriRingB, << >>) >>,
         area |-> ValidArea]
Features == {FTri, FHole, FMulti, FBad}

\* string comparison of two ZIP strings of equal length
RECURSIVE StrLess(_, _)
StrLess(a, b) ==
    IF a = << >> \/ b = << >> THEN a = << >> /\ b # << >>
    ELSE IF a[1] # b[1] THEN a[1] < b[1]
    ELSE StrLess(Tail(a), Tail(b))
StrLeq(a, b) == a = b \/ StrLess(a, b)

SortedByZip(rows) ==
    \A n \in 1..(Len(rows) - 1) : StrLeq(rows[n].zip, rows[n + 1].zip)

\* sequences of at most MaxRows rows of a catalogue
RowSeqs(catalogue) == UNION {[1..n -> catalogue] : n \in 0..MaxRows}

\* feature sequences of at most MaxRows rows, in ZIP order
FeatureSeqs ==
    {rows \in UNION {[1..n -> Features] : n \in 0..MaxRows} : SortedByZip(rows)}

\* ---------------------------------------------------------------- state
VARIABLES
    pc,              \* position of the main path
    result,          \* "none", a returned value or the exception raised
    entry,           \* which entry point runs: "direct", "export" or "core"
    state,           \* the state of a StateShapeFileToDB, NoState otherwise
    state_arg,       \* the state argument as the caller gave it
    shape_file,      \* what the file system holds at the shapefile's path
    source,          \* the rows of the shapefile, in file order
    ctor_digit_max,  \* digit_max and point_max as the caller gave them
    ctor_point_max,
    self_digit_max,  \* exporter attributes set by __init__
    self_point_max,
    zcta_df,         \* argument of export_shapedf_to_db
    digit_max,       \* its digit_max and point_max arguments
    point_max,
    db_call,         \* the call of the store in progress or just returned
    report,          \* a call of _get_time_remaining and what it returned
    current_row,     \* features processed so far
    zip_obj,         \* loop locals of export_shapedf_to_db
    multi,
    polygons,
    part,            \* index in polygons of the part being decomposed
    poly,
    tolerance,       \* local of minimize_poly, in steps of 0.0001
    zcta_obj,
    hole,            \* index in poly.interiors of the ring being written
    zcta_int_obj,
    zip_codes,       \* the four tables, in insertion order
    zctas,
    zcta_points,
    zcta_boundaries,
    timer,           \* self.timer, self.reading, self.shape_df
    reading,
    shape_df,
    rpc,             \* position of the reader path (_read_shape_file)
    rd_row,          \* its local current_row
    tpc,             \* position of the display path (_read_timer)
    elapsed_set,     \* whether its local elapsed_time has been assigned
    failures,        \* faults injected so far
    log              \* history: every store call with where it came from

callVars == <<entry, state, state_arg, shape_file, source,
              ctor_digit_max, ctor_point_max,
              self_digit_max, self_point_max, zcta_df, digit_max, point_max,
              db_call, report>>
readVars == <<timer, reading, shape_df, rpc, rd_row, tpc, elapsed_set>>
loopVars == <<current_row, zip_obj, multi, polygons, part, poly, tolerance,
              zcta_obj, hole, zcta_int_obj>>
storeVars == <<zip_codes, zctas, zcta_points, zcta_boundaries>>
vars == <<pc, result, callVars, readVars, loopVars, storeVars, failures, log>>

\* a Python object reference: None, or a record whose id was assigned
NoneObj == [none |-> TRUE, id |-> None]
Obj(id) == [none |-> FALSE, id |-> id]
NoPoly == Polygon(<< >>, << >>)
\* a (Geo)DataFrame, the value False that get_df_from_shapefile returns for
\* an empty read, and None
Frame(rows) == [kind |-> "frame", rows |-> rows]
FalseValue == [kind |-> "False", rows |-> << >>]
NoneFrame == [kind |-> "None", rows |-> << >>]
IsFrame(df) == df.kind = "frame"


\* ------------------------------------------------------ AddressDatabase
\* A store call either commits its rows, or fails: the exception is caught
\* in the call, nothing is committed and the failure value is returned.
CanFail == failures < MaxFailures
Outcomes == IF CanFail THEN {TRUE, FALSE} ELSE {TRUE}
Spend(ok) == failures' = IF ok THEN failures ELSE failures + 1

\* a faulty variant of add_zip_return: the uncommitted object instead of None
add_zip_return_transient(committed, row_id) ==
    Obj(IF committed THEN row_id ELSE None)
\* what add_zip returns: the refreshed ZipCode, or None
add_zip_return(committed, row_id) ==
    IF committed THEN Obj(row_id) ELSE NoneObj

\* a faulty variant of add_zcta_return: the uncommitted object instead of None
add_zcta_return_transient(committed, row_id) ==
    Obj(IF committed THEN row_id ELSE None)
\* what add_zcta returns: the refreshed ZCTA, or None
add_zcta_return(committed, row_id) ==
    IF committed THEN Obj(row_id) ELSE NoneObj

ZipRow(id, code, lat, lon) ==
    [zip_code_id |-> id, zip_code |-> code, zip_lat |-> lat, zip_lon |-> lon]
ZctaRow(id, zip_code_id, interior, is_multi) ==
    [zcta_id |-> id, zip_code_id |-> zip_code_id, interior |-> interior,
     multi |-> is_multi]
\* a faulty variant of PointRows: each tuple is unpacked as (lat, lon)
PointRows_swapped(first_id, zcta_id, pts) ==
    [n \in 1..Len(pts) |->
        [zcta_point_id |-> first_id + n - 1, zcta_id |-> zcta_id,
         zcta_point_lat |-> pts[n][1], zcta_point_lon |-> pts[n][2]]]
\* add_all_zcta_points unpacks each tuple as (lon, lat)
PointRows(first_id, zcta_id, pts) ==
    [n \in 1..Len(pts) |->
        [zcta_point_id |-> first_id + n - 1, zcta_id |-> zcta_id,
         zcta_point_lat |-> pts[n][2], zcta_point_lon |-> pts[n][1]]]
\* zip(*coords): the tuple of first components and of second components
ZipStar(coords) ==
    << [n \in 1..Len(coords) |-> coords[n][1]],
       [n \in 1..Len(coords) |-> coords[n][2]] >>
BoundaryRow(id, zcta_id, min_lat, max_lat, min_lon, max_lon) ==
    [zcta_boundary_id |-> id, zcta_id |-> zcta_id,
     min_lat |-> min_lat, max_lat |-> max_lat,
     min_lon |-> min_lon, max_lon |-> max_lon]
\* lines 588-593 and 604-609: lats, lons = zip(*coords), so that the name
\* lats is bound to the first components and lons to the second
BoxOf(id, zcta_id, coords) ==
    LET lats == ZipStar(coords)[1]
        lons == ZipStar(coords)[2]
    IN  BoundaryRow(id, zcta_id, SeqMin(lats), SeqMax(lats),
                    SeqMin(lons), SeqMax(lons))

\* no call of _get_time_remaining on its own has been made
NoReport == [rows_done |-> 0, total_rows |-> 0, elapsed_seconds |-> 0,
             remaining |-> << >>]
\* no call of the store on its own has been made
NoCall == [op |-> "none", before |-> << >>, value |-> "none"]

Event(op, ring, ok, id) ==
    [op |-> op, row |-> current_row + 1, part |-> part, ring |-> ring,
     ok |-> ok, id |-> id]


\* ------------------------------------------------ export_shapedf_to_db
\* for poly in polygons: the next part, or the end of the feature
NextPart ==
    IF part < Len(polygons)
    THEN /\ part' = part + 1
         /\ poly' = polygons[part + 1]
         /\ tolerance' = 0
         /\ pc' = "minimize"
    ELSE /\ pc' = "progress"
         /\ UNCHANGED <<part, poly, tolerance>>

\* lines 524-549: connect, print the header; len(zcta_df) needs a frame
Call ==
    /\ pc = "call"
    /\ IF IsFrame(zcta_df)
       THEN /\ pc' = "loop"
            /\ result' = result
       ELSE /\ pc' = "raised"
            /\ result' = "TypeError"
    /\ current_row' = 0
    /\ UNCHANGED <<callVars, readVars, zip_obj, multi, polygons, part, poly, tolerance,
                   zcta_obj, hole, zcta_int_obj, storeVars, failures, log>>

\* lines 552-570: the next row; float() of the centroid fields is outside
\* the try block; add_zip; the parts of the geometry
NextFeature ==
    /\ pc = "loop"
    /\ current_row < Len(zcta_df.rows)
    /\ LET row == zcta_df.rows[current_row + 1] IN
       IF ~row.lat.numeric \/ ~row.lon.numeric
       THEN /\ pc' = "raised"
            /\ result' = "ValueError"
            /\ UNCHANGED <<zip_obj, multi, polygons, part, poly, tolerance,
                           storeVars, failures, log>>
       ELSE \E ok \in Outcomes :
            LET id == Len(zip_codes) + 1
                obj == add_zip_return(ok, id)
                geoms == row.geoms
            IN  /\ Spend(ok)
                /\ zip_codes' = IF ok
                     THEN Append(zip_codes,
                            ZipRow(id, row.zip, PyRound(row.lat.val, digit_max),
                                   PyRound(row.lon.val, digit_max)))
                     ELSE zip_codes
                /\ zip_obj' = obj
                /\ log' = Append(log, [Event("add_zip", 0, ok, obj.id)
                                         EXCEPT !.part = 0])
                /\ result' = result
                /\ UNCHANGED <<zctas, zcta_points, zcta_boundaries>>
                /\ IF ~obj.none /\ Len(geoms) > 0
                   THEN /\ polygons' = geoms
                        /\ multi' = row.multipolygon
                        /\ part' = 1
                        /\ poly' = geoms[1]
                        /\ tolerance' = 0
                        /\ pc' = "minimize"
                   ELSE /\ pc' = "progress"
                        /\ UNCHANGED <<multi, polygons, part, poly, tolerance>>
    /\ UNCHANGED <<callVars, readVars, current_row, zcta_obj, hole, zcta_int_obj>>

\* a faulty variant of minimize_continue: off by one
minimize_continue_off(n, pmax) == n > pmax + 1
\* line 496: while len(cord_list) > point_max
minimize_continue(n, pmax) == n > pmax

\* a faulty variant of TolNext: the tolerance grows by two steps
TolNext_double(t) == t + 2
\* the tolerance after a pass; tolerances above TolCap are told apart only
\* by parity, the loop itself goes on
TolNext(t) == IF t < TolCap THEN t + 1
              ELSE IF t = TolCap THEN TolCap + 1 ELSE TolCap

\* lines 497-499: one pass of the loop of minimize_poly
MinimizePass ==
    /\ pc = "minimize"
    /\ point_max # None
    /\ minimize_continue(Len(poly.ext), point_max)
    /\ poly' = simplify(poly, tolerance)
    /\ tolerance' = TolNext(tolerance)
    /\ UNCHANGED <<pc, result, callVars, readVars, current_row, zip_obj, multi, polygons,
                   part, zcta_obj, hole, zcta_int_obj, storeVars, failures, log>>

\* line 500: the loop ends and the polygon is returned
MinimizeReturn ==
    /\ pc = "minimize"
    /\ point_max # None
    /\ ~minimize_continue(Len(poly.ext), point_max)
    /\ pc' = "add_zcta"
    /\ UNCHANGED <<result, callVars, readVars, loopVars, storeVars, failures, log>>

\* line 496 with point_max None: int > None raises TypeError, caught at 611
MinimizeTypeError ==
    /\ pc = "minimize"
    /\ point_max = None
    /\ pc' = "progress"
    /\ log' = Append(log, Event("TypeError", 0, FALSE, None))
    /\ UNCHANGED <<result, callVars, readVars, loopVars, storeVars, failures>>

\* line 577: the TabulationArea of the exterior ring
AddZcta ==
    /\ pc = "add_zcta"
    /\ \E ok \in Outcomes :
         LET id == Len(zctas) + 1
             obj == add_zcta_return(ok, id)
         IN  /\ Spend(ok)
             /\ zctas' = IF ok
                  THEN Append(zctas, ZctaRow(id, zip_obj.id, FALSE, multi))
                  ELSE zctas
             /\ zcta_obj' = obj
             /\ log' = Append(log, Event("add_zcta", 0, ok, obj.id))
    /\ pc' = "add_points"
    /\ UNCHANGED <<result, callVars, readVars, current_row, zip_obj, multi, polygons,
                   part, poly, tolerance, hole, zcta_int_obj, zip_codes,
                   zcta_points, zcta_boundaries>>

\* lines 580-585: the rounded exterior ring; zcta_obj.zcta_id raises
\* AttributeError when add_zcta returned None (caught at 611)
AddExteriorPoints ==
    /\ pc = "add_points"
    /\ IF zcta_obj.none
       THEN /\ pc' = "progress"
            /\ log' = Append(log, Event("AttributeError", 0, FALSE, None))
            /\ UNCHANGED <<zcta_points, failures>>
       ELSE \E ok \in Outcomes :
            LET ext_cord_list == RoundRing(poly.ext, digit_max) IN
            /\ Spend(ok)
            /\ zcta_points' = IF ok
                 THEN zcta_points \o
                      PointRows(Len(zcta_points) + 1, zcta_obj.id, ext_cord_list)
                 ELSE zcta_points
            /\ log' = Append(log, Event("add_all_zcta_points", 0, ok, zcta_obj.id))
            /\ pc' = "add_boundary"
    /\ UNCHANGED <<result, callVars, readVars, loopVars, zip_codes, zctas, zcta_boundaries>>

\* lines 588-596: the bounding box of the rounded exterior ring, then the
\* first interior ring or the next part
AddExteriorBoundary ==
    /\ pc = "add_boundary"
    /\ \E ok \in Outcomes :
         LET ext_cord_list == RoundRing(poly.ext, digit_max) IN
         /\ Spend(ok)
         /\ zcta_boundaries' = IF ok
              THEN Append(zcta_boundaries,
                     BoxOf(Len(zcta_boundaries) + 1, zcta_obj.id, ext_cord_list))
              ELSE zcta_boundaries
         /\ log' = Append(log, Event("add_zcta_boundary", 0, ok, zcta_obj.id))
    /\ IF Len(poly.ints) > 0
       THEN /\ hole' = 1
            /\ pc' = "int_zcta"
            /\ UNCHANGED <<part, poly, tolerance>>
       ELSE /\ hole' = hole
            /\ NextPart
    /\ UNCHANGED <<result, callVars, readVars, current_row, zip_obj, multi, polygons,
                   zcta_obj, zcta_int_obj, zip_codes, zctas, zcta_points>>

\* line 597: the TabulationArea of an interior ring
AddInteriorZcta ==
    /\ pc = "int_zcta"
    /\ \E ok \in Outcomes :
         LET id == Len(zctas) + 1
             obj == add_zcta_return(ok, id)
         IN  /\ Spend(ok)
             /\ zctas' = IF ok
                  THEN Append(zctas, ZctaRow(id, zip_obj.id, TRUE, multi))
                  ELSE zctas
             /\ zcta_int_obj' = obj
             /\ log' = Append(log, Event("add_zcta", hole, ok, obj.id))
    /\ pc' = "int_points"
    /\ UNCHANGED <<result, callVars, readVars, current_row, zip_obj, multi, polygons,
                   part, poly, tolerance, zcta_obj, hole, zip_codes,
                   zcta_points, zcta_boundaries>>

\* lines 598-602: the interior ring rounded to self.digit_max;
\* zcta_int_obj.zcta_id raises AttributeError on None (caught at 611)
AddInteriorPoints ==
    /\ pc = "int_points"
    /\ IF zcta_int_obj.none
       THEN /\ pc' = "progress"
            /\ log' = Append(log, Event("AttributeError", hole, FALSE, None))
            /\ UNCHANGED <<zcta_points, failures>>
       ELSE \E ok \in Outcomes :
            LET interior_coord_list ==
                    RoundRing(poly.ints[hole], self_digit_max) IN
            /\ Spend(ok)
            /\ zcta_points' = IF ok
                 THEN zcta_points \o
                      PointRows(Len(zcta_points) + 1, zcta_int_obj.id,
                                interior_coord_list)
                 ELSE zcta_points
            /\ log' = Append(log, Event("add_all_zcta_points", hole, ok,
                                        zcta_int_obj.id))
            /\ pc' = "int_boundary"
    /\ UNCHANGED <<result, callVars, readVars, loopVars, zip_codes, zctas, zcta_boundaries>>

\* a faulty variant of AddInteriorBoundary: the box is written with the
\* interior area's id
AddInteriorBoundary_own ==
    /\ pc = "int_boundary"
    /\ \E ok \in Outcomes :
         LET interior_coord_list ==
                 RoundRing(poly.ints[hole], self_digit_max) IN
         /\ Spend(ok)
         /\ zcta_boundaries' = IF ok
              THEN Append(zcta_boundaries,
                     BoxOf(Len(zcta_boundaries) + 1, zcta_int_obj.id,
                           interior_coord_list))
              ELSE zcta_boundaries
         /\ log' = Append(log, Event("add_zcta_boundary", hole, ok, zcta_int_obj.id))
    /\ IF hole < Len(poly.ints)
       THEN /\ hole' = hole + 1
            /\ pc' = "int_zcta"
            /\ UNCHANGED <<part, poly, tolerance>>
       ELSE /\ hole' = hole
            /\ NextPart
    /\ UNCHANGED <<result, callVars, readVars, current_row, zip_obj, multi, polygons,
                   zcta_obj, zcta_int_obj, zip_codes, zctas, zcta_points>>
\* lines 604-609: the bounding box of the interior ring, written with
\* zcta_id = zcta_obj.zcta_id; then the next interior ring or the next part
AddInteriorBoundary ==
    /\ pc = "int_boundary"
    /\ \E ok \in Outcomes :
         LET interior_coord_list ==
                 RoundRing(poly.ints[hole], self_digit_max) IN
         /\ Spend(ok)
         /\ zcta_boundaries' = IF ok
              THEN Append(zcta_boundaries,
                     BoxOf(Len(zcta_boundaries) + 1, zcta_obj.id,
                           interior_coord_list))
              ELSE zcta_boundaries
         /\ log' = Append(log, Event("add_zcta_boundary", hole, ok, zcta_obj.id))
    /\ IF hole < Len(poly.ints)
       THEN /\ hole' = hole + 1
            /\ pc' = "int_zcta"
            /\ UNCHANGED <<part, poly, tolerance>>
       ELSE /\ hole' = hole
            /\ NextPart
    /\ UNCHANGED <<result, callVars, readVars, current_row, zip_obj, multi, polygons,
                   zcta_obj, zcta_int_obj, zip_codes, zctas, zcta_points>>

\* lines 614-622: the progress counter
Progress ==
    /\ pc = "progress"
    /\ current_row' = current_row + 1
    /\ pc' = "loop"
    /\ UNCHANGED <<result, callVars, readVars, zip_obj, multi, polygons, part, poly,
                   tolerance, zcta_obj, hole, zcta_int_obj, storeVars,
                   failures, log>>

\* lines 624-637: the sequence is exhausted; the final report; return True
Finish ==
    /\ pc = "loop"
    /\ current_row = Len(zcta_df.rows)
    /\ pc' = "done"
    /\ result' = "True"
    /\ UNCHANGED <<callVars, readVars, loopVars, storeVars, failures, log>>

\* ------------------------------------------------------------ filter_df
\* a faulty variant of SortByZip: the rows stay in file order
SortByZip_unsorted(rows) == rows
RECURSIVE SortByZip(_)
\* a faulty variant of InsertByZip: the row is put first
InsertByZip_front(row, sorted) == <<row>> \o sorted
\* sort_values(by=ZCTA5CE20): ascending string order, equal keys keep
\* their order
InsertByZip(row, sorted) ==
    LET after == {n \in 1..Len(sorted) : StrLeq(sorted[n].zip, row.zip)}
        k == IF after = {} THEN 0
             ELSE CHOOSE n \in after : \A m \in after : m <= n
    IN  SubSeq(sorted, 1, k) \o <<row>> \o SubSeq(sorted, k + 1, Len(sorted))
SortByZip(rows) ==
    IF rows = << >> THEN << >>
    ELSE InsertByZip(rows[Len(rows)], SortByZip(SubSeq(rows, 1, Len(rows) - 1)))

NoState == "None"
\* STATE_ZIP_RANGES, the entries of the states the model runs
STATE_ZIP_RANGES ==
    [s \in {"AL", "CA", "NY"} |->
        IF s = "NY"
        THEN << << <<0, 6, 3, 9, 0>>, <<0, 6, 3, 9, 0>> >>,
                << <<1, 0, 0, 0, 1>>, <<1, 4, 9, 7, 5>> >> >>
        ELSE IF s = "AL"
        THEN << << <<3, 5, 0, 0, 4>>, <<3, 6, 9, 2, 5>> >> >>
        ELSE << << <<9, 0, 0, 0, 1>>, <<9, 6, 1, 6, 2>> >> >>]

\* a faulty variant of SelectRows: the mask is ignored
SelectRows_all(rows, keep) == rows
RECURSIVE SelectRows(_, _)
SelectRows(rows, keep) ==
    IF rows = << >> THEN << >>
    ELSE IF keep[1] THEN <<rows[1]>> \o SelectRows(Tail(rows), Tail(keep))
    ELSE SelectRows(Tail(rows), Tail(keep))

\* ShapeFileToDB.filter_df sorts; StateShapeFileToDB.filter_df keeps the
\* rows inside one of the state's ranges, then sorts
filter_df(st, rows) ==
    IF st = NoState THEN SortByZip(rows)
    ELSE LET zip_ranges_list == STATE_ZIP_RANGES[st]
             combined_filter ==
                 [n \in 1..Len(rows) |->
                     \E r \in 1..Len(zip_ranges_list) :
                        /\ StrLeq(zip_ranges_list[r][1], rows[n].zip)
                        /\ StrLeq(rows[n].zip, zip_ranges_list[r][2])]
         IN  SortByZip(SelectRows(rows, combined_filter))

\* ------------------------------------------------ get_df_from_shapefile
\* lines 415-420: self.timer = True and the display path is started
StartTimer ==
    /\ pc = "start"
    /\ timer' = TRUE
    /\ tpc' = "poll"
    /\ pc' = "set_reading"
    /\ UNCHANGED <<result, callVars, reading, shape_df, rpc, rd_row, elapsed_set,
                   loopVars, storeVars, failures, log>>

\* lines 422-423: self.reading = True and the reader path is started
StartReader ==
    /\ pc = "set_reading"
    /\ reading' = TRUE
    /\ rpc' = "init"
    /\ pc' = "join_read"
    /\ UNCHANGED <<result, callVars, timer, shape_df, rd_row, tpc, elapsed_set,
                   loopVars, storeVars, failures, log>>

\* lines 318-319 of _read_shape_file
ReaderInit ==
    /\ rpc = "init"
    /\ rd_row' = 0
    /\ shape_df' = Frame(<< >>)
    /\ rpc' = "loop"
    /\ UNCHANGED <<pc, result, callVars, timer, reading, tpc, elapsed_set,
                   loopVars, storeVars, failures, log>>

\* a faulty variant of Min: the row at the end of the file is left out
Min_short(a, b) == IF a < b THEN a ELSE b - 1
Min(a, b) == IF a <= b THEN a ELSE b

\* lines 321-338: one window is read.  A read that raises ends the reader
\* path with the exception (nothing in _read_shape_file catches it); an
\* empty window clears self.reading; any other is appended.
ReadChunk ==
    /\ rpc = "loop"
    /\ reading
    /\ \E ok \in Outcomes :
         LET gdf_temp == SubSeq(source, rd_row + 1,
                                Min(rd_row + ROW_INCREMENT, Len(source)))
         IN  /\ Spend(ok)
             /\ log' = Append(log, [Event("read_file", 0, ok, rd_row)
                                      EXCEPT !.row = 0, !.part = 0])
             /\ IF ~ok
                THEN /\ rpc' = "died"
                     /\ UNCHANGED <<reading, shape_df, rd_row>>
                ELSE IF gdf_temp = << >>
                THEN /\ reading' = FALSE
                     /\ rpc' = "clear_timer"
                     /\ UNCHANGED <<shape_df, rd_row>>
                ELSE /\ shape_df' = Frame(shape_df.rows \o gdf_temp)
                     /\ rd_row' = rd_row + ROW_INCREMENT
                     /\ rpc' = "loop"
                     /\ reading' = reading
    /\ UNCHANGED <<pc, result, callVars, timer, tpc, elapsed_set, loopVars,
                   storeVars>>

\* line 331: self.timer = False
ClearTimer ==
    /\ rpc = "clear_timer"
    /\ timer' = FALSE
    /\ rpc' = "loop"
    /\ UNCHANGED <<pc, result, callVars, reading, shape_df, rd_row, tpc,
                   elapsed_set, loopVars, storeVars, failures, log>>

\* line 321 with self.reading cleared: the reader path ends
ReaderExit ==
    /\ rpc = "loop"
    /\ ~reading
    /\ rpc' = "done"
    /\ UNCHANGED <<pc, result, callVars, timer, reading, shape_df, rd_row, tpc,
                   elapsed_set, loopVars, storeVars, failures, log>>

\* a faulty variant of TimerPoll: the display path empties the frame
TimerPoll_clobber ==
    /\ tpc = "poll"
    /\ timer
    /\ elapsed_set' = TRUE
    /\ shape_df' = Frame(<< >>)
    /\ UNCHANGED <<pc, result, callVars, timer, reading, rpc, rd_row,
                   tpc, loopVars, storeVars, failures, log>>
\* lines 279-285 of _read_timer: one turn of the polling loop
TimerPoll ==
    /\ tpc = "poll"
    /\ timer
    /\ elapsed_set' = TRUE
    /\ UNCHANGED <<pc, result, callVars, timer, reading, shape_df, rpc, rd_row,
                   tpc, loopVars, storeVars, failures, log>>

\* lines 287-299: the flag is clear; the final frame uses elapsed_time,
\* which is unbound (UnboundLocalError) when the loop body never ran
TimerFinal ==
    /\ tpc = "poll"
    /\ ~timer
    /\ tpc' = IF elapsed_set THEN "done" ELSE "died"
    /\ UNCHANGED <<pc, result, callVars, timer, reading, shape_df, rpc, rd_row,
                   elapsed_set, loopVars, storeVars, failures, log>>

\* a faulty variant of JoinReader: the main path does not wait
JoinReader_nowait ==
    /\ pc = "join_read"
    /\ pc' = "join_timer"
    /\ UNCHANGED <<result, callVars, readVars, loopVars, storeVars, failures, log>>
\* line 426: read_thread.join() returns when the reader path has ended,
\* normally or with an exception
JoinReader ==
    /\ pc = "join_read"
    /\ rpc \in {"done", "died"}
    /\ pc' = "join_timer"
    /\ UNCHANGED <<result, callVars, readVars, loopVars, storeVars, failures, log>>

\* line 427: timer_thread.join()
JoinTimer ==
    /\ pc = "join_timer"
    /\ tpc \in {"done", "died"}
    /\ pc' = "joined"
    /\ UNCHANGED <<result, callVars, readVars, loopVars, storeVars, failures, log>>

\* lines 430-439: False for an empty read, else the filtered, sorted frame
GetDfValue ==
    IF shape_df.rows = << >> THEN FalseValue
    ELSE Frame(filter_df(state, shape_df.rows))

\* ShapeFileToDB.export, lines 184-190, after get_df_from_shapefile
\* returned: False.empty raises AttributeError
ExportDispatch ==
    /\ pc = "joined"
    /\ entry = "export"
    /\ LET df == GetDfValue IN
       /\ zcta_df' = df
       /\ IF ~IsFrame(df)
          THEN /\ pc' = "raised"
               /\ result' = "AttributeError"
               /\ UNCHANGED <<digit_max, point_max>>
          ELSE IF df.rows = << >>
          THEN /\ pc' = "done"
               /\ result' = "False"
               /\ UNCHANGED <<digit_max, point_max>>
          ELSE /\ pc' = "call"
               /\ result' = result
               /\ digit_max' = self_digit_max
               /\ point_max' = self_point_max
    /\ UNCHANGED <<entry, state, state_arg, shape_file, source, db_call, report,
                   ctor_digit_max, ctor_point_max,
                   self_digit_max, self_point_max, readVars, loopVars,
                   storeVars, failures, log>>

\* export_shapefile_to_db, lines 60-66: the caller's digit_max and
\* point_max are handed on as given
CoreDispatch ==
    /\ pc = "joined"
    /\ entry = "core"
    /\ zcta_df' = GetDfValue
    /\ digit_max' = ctor_digit_max
    /\ point_max' = ctor_point_max
    /\ pc' = "call"
    /\ UNCHANGED <<result, entry, state, state_arg, shape_file, source, db_call, report,
                   ctor_digit_max, ctor_point_max,
                   self_digit_max, self_point_max, readVars, loopVars,
                   storeVars, failures, log>>

Next ==
    \/ StartTimer
    \/ StartReader
    \/ ReaderInit
    \/ ReadChunk
    \/ ClearTimer
    \/ ReaderExit
    \/ TimerPoll
    \/ TimerFinal
    \/ JoinReader
    \/ JoinTimer
    \/ ExportDispatch
    \/ CoreDispatch
    \/ Call
    \/ NextFeature
    \/ MinimizePass
    \/ MinimizeReturn
    \/ MinimizeTypeError
    \/ AddZcta
    \/ AddExteriorPoints
    \/ AddExteriorBoundary
    \/ AddInteriorZcta
    \/ AddInteriorPoints
    \/ AddInteriorBoundary
    \/ Progress
    \/ Finish

\* ------------------------------------------------------------------ Init
\* rows of a shapefile, in any order
SourceSeqs == UNION {[1..n -> Features] : n \in 0..MaxRows}

\* __init__, lines 163-173
DefaultOr(arg, default) == IF arg = None THEN default ELSE arg

\* a Python value given as the state argument: None, a str (its characters)
\* or an int
NoneArg == [kind |-> "None", text |-> << >>, n |-> 0]
StrArg(chars) == [kind |-> "str", text |-> chars, n |-> 0]
IntArg(n) == [kind |-> "int", text |-> << >>, n |-> n]
\* the keys of STATE_ZIP_RANGES, character by character
KeyChars(key) == CASE key = "AL" -> <<"A", "L">>
                   [] key = "CA" -> <<"C", "A">>
                   [] key = "NY" -> <<"N", "Y">>
\* a shapefile that check_shapefile accepts
ValidShapeFile ==
    [exists |-> TRUE, root_blank |-> FALSE, extension |-> <<".", "s", "h", "p">>,
     shx |-> TRUE, dbf |-> TRUE]
\* an exporter that was constructed: its state came from a valid argument
\* and its shapefile passed the check
Constructed ==
    /\ state_arg = IF state = NoState THEN NoneArg ELSE StrArg(KeyChars(state))
    /\ shape_file = ValidShapeFile

\* the locals and the store before a run: a new database, no path started
InitLocals ==
    /\ result = "none"
    /\ db_call = NoCall
    /\ timer = FALSE
    /\ reading = FALSE
    /\ shape_df = NoneFrame
    /\ rpc = "idle"
    /\ rd_row = 0
    /\ tpc = "idle"
    /\ elapsed_set = FALSE
    /\ current_row = 0
    /\ zip_obj = NoneObj
    /\ multi = FALSE
    /\ polygons = << >>
    /\ part = 0
    /\ poly = NoPoly
    /\ tolerance = 0
    /\ zcta_obj = NoneObj
    /\ hole = 0
    /\ zcta_int_obj = NoneObj
    /\ zip_codes = << >>
    /\ zctas = << >>
    /\ zcta_points = << >>
    /\ zcta_boundaries = << >>
    /\ failures = 0
    /\ log = << >>

InitRest == InitLocals /\ Constructed /\ report = NoReport

\* export_shapedf_to_db called on an exporter built with the defaults, on a
\* frame of rows in ZIP order
InitDirectOn(seqs) ==
    /\ entry = "direct"
    /\ pc = "call"
    /\ state = NoState
    /\ source = << >>
    /\ ctor_digit_max = None
    /\ ctor_point_max = None
    /\ self_digit_max = DEFAULT_DIGIT_MAX
    /\ self_point_max = DEFAULT_POINT_MAX
    /\ zcta_df \in {Frame(rows) : rows \in {r \in seqs : SortedByZip(r)}}
    /\ digit_max \in {3, 4}
    /\ point_max \in {3, 5}

InitDirect == InitDirectOn(FeatureSeqs)

\* ShapeFileToDB(...).export(), StateShapeFileToDB(...).export() and
\* export_shapefile_to_db(...), each with and without digit_max, point_max
InitPipelineOn(seqs) ==
    /\ entry \in {"export", "core"}
    /\ pc = "start"
    /\ state \in {NoState, "NY", "CA"}
    /\ source \in seqs
    /\ \E given \in {<<None, None>>, <<3, 5>>} :
          /\ ctor_digit_max = given[1]
          /\ ctor_point_max = given[2]
    /\ self_digit_max = DefaultOr(ctor_digit_max, DEFAULT_DIGIT_MAX)
    /\ self_point_max = DefaultOr(ctor_point_max, DEFAULT_POINT_MAX)
    /\ zcta_df = NoneFrame
    /\ digit_max = None
    /\ point_max = None

InitPipeline == InitPipelineOn(SourceSeqs)

Init == (InitDirect \/ InitPipeline) /\ InitRest

Spec == Init /\ [][Next]_vars

\* Every path that can take a step eventually takes one: the interpreter
\* switches between the main, reader and display paths, and each of them
\* runs on when it is scheduled.
FairSpec ==
    /\ Spec
    /\ WF_vars(StartTimer \/ StartReader \/ JoinReader \/ JoinTimer
               \/ ExportDispatch \/ CoreDispatch \/ Call \/ NextFeature
               \/ MinimizePass \/ MinimizeReturn \/ MinimizeTypeError
               \/ AddZcta \/ AddExteriorPoints \/ AddExteriorBoundary
               \/ AddInteriorZcta \/ AddInteriorPoints \/ AddInteriorBoundary
               \/ Progress \/ Finish)
    /\ WF_vars(ReaderInit \/ ReadChunk \/ ClearTimer \/ ReaderExit)
    /\ WF_vars(TimerPoll \/ TimerFinal)


\* the same runs on shapefiles that also hold a row of another
\* classification
InitClassified ==
    /\ \/ InitDirectOn(RowSeqs({FTri, FHole, FOther}))
       \/ InitPipelineOn(RowSeqs({FTri, FHole, FOther}))
    /\ InitRest
ClassSpec == InitClassified /\ [][Next]_vars

\* the same runs on frames that also hold a one-part MultiPolygon
InitParts ==
    /\ \/ InitDirectOn(RowSeqs({FHole, FMulti, FOne}))
       \/ InitPipelineOn(RowSeqs({FHole, FMulti, FOne}))
    /\ InitRest
PartsSpec == InitParts /\ [][Next]_vars

\* ------------------------------------------------------- constructors
\* str.upper, str.lower and str.strip on the characters the model uses
UpperChar(c) == CASE c = "a" -> "A" [] c = "c" -> "C" [] c = "l" -> "L"
                  [] c = "n" -> "N" [] c = "y" -> "Y" [] c = "z" -> "Z"
                  [] OTHER -> c
upper(chars) == [n \in 1..Len(chars) |-> UpperChar(chars[n])]
LowerChar(c) == CASE c = "S" -> "s" [] c = "H" -> "h" [] c = "P" -> "p"
                  [] c = "X" -> "x" [] OTHER -> c
lower(chars) == [n \in 1..Len(chars) |-> LowerChar(chars[n])]
RECURSIVE strip(_)
strip(chars) ==
    IF chars = << >> THEN << >>
    ELSE IF Head(chars) = " " THEN strip(Tail(chars))
    ELSE IF chars[Len(chars)] = " " THEN strip(SubSeq(chars, 1, Len(chars) - 1))
    ELSE chars

\* core.py line 46, `if state:`: the truth value of the argument
Truthy(arg) == CASE arg.kind = "None" -> FALSE
                 [] arg.kind = "str" -> arg.text # << >>
                 [] arg.kind = "int" -> arg.n # 0
\* state_shape_file_exporter.py line 55: the test that raises ValueError
InvalidState(arg) ==
    \/ arg.kind # "str"
    \/ ~ \E key \in DOMAIN STATE_ZIP_RANGES : KeyChars(key) = upper(arg.text)
StateKey(chars) == CHOOSE key \in DOMAIN STATE_ZIP_RANGES : KeyChars(key) = chars

\* a faulty variant of check_shapefile: the companion files are not looked at
check_shapefile_alone(file) ==
    IF ~file.exists THEN "FileNotFoundError"
    ELSE IF file.root_blank \/ lower(strip(file.extension)) # <<".", "s", "h", "p">>
    THEN "FileNotFoundError"
    ELSE "True"
\* check_shapefile, lines 219-241: True, or the exception raised
check_shapefile(file) ==
    IF ~file.exists THEN "FileNotFoundError"
    ELSE IF file.root_blank \/ lower(strip(file.extension)) # <<".", "s", "h", "p">>
    THEN "FileNotFoundError"
    ELSE IF ~file.shx \/ ~file.dbf THEN "FileNotFoundError"
    ELSE "True"

\* export_shapefile_to_db, core.py lines 46-58: the class to construct
CoreSelect ==
    /\ pc = "core_entry"
    /\ pc' = IF Truthy(state_arg) THEN "state_init" ELSE "shape_init"
    /\ UNCHANGED <<result, callVars, readVars, loopVars, storeVars, failures, log>>

\* StateShapeFileToDB.__init__, lines 55-72, up to the call of the parent's
\* __init__
StateInit ==
    /\ pc = "state_init"
    /\ IF InvalidState(state_arg)
       THEN /\ pc' = "raised"
            /\ result' = "ValueError"
            /\ state' = state
       ELSE /\ pc' = "shape_init"
            /\ result' = result
            /\ state' = StateKey(upper(state_arg.text))
    /\ UNCHANGED <<entry, state_arg, shape_file, source, db_call, report, ctor_digit_max,
                   ctor_point_max, self_digit_max, self_point_max, zcta_df,
                   digit_max, point_max, readVars, loopVars, storeVars,
                   failures, log>>

\* ShapeFileToDB.__init__, lines 163-178: the defaults, then check_shapefile
ShapeInit ==
    /\ pc = "shape_init"
    /\ self_digit_max' = DefaultOr(ctor_digit_max, DEFAULT_DIGIT_MAX)
    /\ self_point_max' = DefaultOr(ctor_point_max, DEFAULT_POINT_MAX)
    /\ LET checked == check_shapefile(shape_file) IN
       /\ log' = Append(log, [Event("check_shapefile", 0, checked = "True", 0)
                                 EXCEPT !.row = 0, !.part = 0])
       /\ IF checked = "True"
          THEN pc' = "start" /\ result' = result
          ELSE pc' = "raised" /\ result' = checked
    /\ UNCHANGED <<entry, state, state_arg, shape_file, source, db_call, report,
                   ctor_digit_max,
                   ctor_point_max, zcta_df, digit_max, point_max, readVars,
                   loopVars, storeVars, failures>>

CtorNext == CoreSelect \/ StateInit \/ ShapeInit \/ Next

\* state arguments: None, "", 0, 7, "ca", "CA", "Ny", "zz"
StateArgs ==
    {NoneArg, StrArg(<< >>), IntArg(0), IntArg(7), StrArg(<<"c", "a">>),
     StrArg(<<"C", "A">>), StrArg(<<"N", "y">>), StrArg(<<"z", "z">>)}
\* extensions: .shp, .SHP, ".shp " (accepted), .shx and none (refused)
Extensions ==
    {<<".", "s", "h", "p">>, <<".", "S", "H", "P">>, <<".", "s", "h", "p", " ">>,
     <<".", "s", "h", "x">>, << >>}
\* os.path.abspath never yields a blank root
ShapeFiles ==
    [exists : BOOLEAN, root_blank : {FALSE}, extension : Extensions,
     shx : BOOLEAN, dbf : BOOLEAN]
CtorSources == {<< >>, <<FHole>>, <<FMulti>>}

\* export_shapefile_to_db(state, ...) and StateShapeFileToDB(state, ...)
\* followed by export(), from the call on
InitCtor ==
    /\ \/ entry = "core" /\ pc = "core_entry"
       \/ entry = "export" /\ pc = "state_init"
    /\ state_arg \in StateArgs
    /\ state = NoState
    /\ shape_file \in ShapeFiles
    /\ source \in CtorSources
    /\ \E given \in {<<None, None>>, <<3, 5>>} :
          /\ ctor_digit_max = given[1]
          /\ ctor_point_max = given[2]
    /\ self_digit_max = None
    /\ self_point_max = None
    /\ zcta_df = NoneFrame
    /\ digit_max = None
    /\ point_max = None
    /\ report = NoReport
    /\ InitLocals

CtorSpec == InitCtor /\ [][CtorNext]_vars

\* ------------------------------------------- _get_time_remaining
\* str(n) as its decimal digits, and the format 02d
RECURSIVE Digits(_)
Digits(n) == IF n < 10 THEN <<n>> ELSE Append(Digits(n \div 10), n % 10)
Format02d(n) == IF n < 10 THEN <<0, n>> ELSE Digits(n)

\* a faulty variant of get_time_remaining: the minutes are not reduced
\* modulo the hour
get_time_remaining_minutes(rows_done, total_rows, elapsed_seconds) ==
    IF rows_done = 0 THEN << <<0, 0>>, <<0, 0>>, <<0, 0>> >>
    ELSE LET rows_left == total_rows - rows_done
             numerator == rows_left * elapsed_seconds
             hours == (numerator \div rows_done) \div 3600
             minutes == (numerator \div rows_done) \div 60
             seconds == (numerator \div rows_done) % 60
         IN  <<Format02d(hours), Format02d(minutes), Format02d(seconds)>>
\* lines 674-685: "HH:MM:SS" as its three fields.  time_left is the
\* fraction numerator / rows_done; elapsed_seconds is counted in whole
\* seconds, and int(time_left // 3600), int((time_left % 3600) // 60) and
\* int(time_left % 60) are the same for the fraction and for its floor
get_time_remaining(rows_done, total_rows, elapsed_seconds) ==
    IF rows_done = 0 THEN << <<0, 0>>, <<0, 0>>, <<0, 0>> >>
    ELSE LET rows_left == total_rows - rows_done
             numerator == rows_left * elapsed_seconds
             hours == (numerator \div rows_done) \div 3600
             minutes == ((numerator \div rows_done) % 3600) \div 60
             seconds == (numerator \div rows_done) % 60
         IN  <<Format02d(hours), Format02d(minutes), Format02d(seconds)>>

\* one call of _get_time_remaining
GetTimeRemaining ==
    /\ pc = "estimate"
    /\ report' = [report EXCEPT !.remaining =
                     get_time_remaining(report.rows_done, report.total_rows,
                                        report.elapsed_seconds)]
    /\ pc' = "estimated"
    /\ UNCHANGED <<result, entry, state, state_arg, shape_file, source, db_call,
                   ctor_digit_max, ctor_point_max, self_digit_max,
                   self_point_max, zcta_df, digit_max, point_max, readVars,
                   loopVars, storeVars, failures, log>>

\* elapsed times around the minute and the hour, and beyond 99 hours
ElapsedSeconds == {0, 1, 59, 60, 3599, 3600, 7325, 360000}
\* the calls the export makes: rows_done of total_rows rows are done
InitEstimate ==
    /\ entry = "estimate"
    /\ pc = "estimate"
    /\ \E total \in 0..(MaxRows + 1) : \E done \in 0..total :
       \E elapsed \in ElapsedSeconds :
          report = [rows_done |-> done, total_rows |-> total,
                    elapsed_seconds |-> elapsed, remaining |-> << >>]
    /\ state = NoState
    /\ source = << >>
    /\ ctor_digit_max = None
    /\ ctor_point_max = None
    /\ self_digit_max = DEFAULT_DIGIT_MAX
    /\ self_point_max = DEFAULT_POINT_MAX
    /\ zcta_df = NoneFrame
    /\ digit_max = None
    /\ point_max = None
    /\ InitLocals
    /\ Constructed

\* the frames whose export is followed to its final report
ReportFrames == {<< >>, <<FHole>>, <<FTri>>, <<FHole, FMulti>>}
InitReport ==
    \/ InitEstimate
    \/ (InitDirectOn(ReportFrames) \/ InitPipelineOn(ReportFrames)) /\ InitRest
EstimateSpec == InitReport /\ [][Next \/ GetTimeRemaining]_vars

\* ----------------------------------------- AddressDatabase on its own
\* The four add methods step by step: the rows are added to the session,
\* session.commit() writes them all or raises, and add_zip, add_zcta and
\* add_zcta_boundary then call session.refresh() on the new object; every
\* exception is caught and the failure value returned.
Tables == <<zip_codes, zctas, zcta_points, zcta_boundaries>>
StoreMethods == {"add_zip", "add_zcta", "add_all_zcta_points", "add_zcta_boundary"}
Refreshes(op) == op # "add_all_zcta_points"
FailureValue(op) == IF op = "add_all_zcta_points" THEN "False" ELSE "None"
SuccessValue(op) == IF op = "add_all_zcta_points" THEN "True" ELSE "record"
StorePoints == RoundRing(TriRing, DEFAULT_DIGIT_MAX)

\* the try block is entered and the rows are added to the session
DbCall ==
    /\ pc = "db_idle"
    /\ Len(log) < MaxCalls
    /\ \E op \in StoreMethods :
          db_call' = [op |-> op, before |-> Tables, value |-> "pending"]
    /\ pc' = "db_commit"
    /\ UNCHANGED <<result, entry, state, state_arg, shape_file, source, report,
                   ctor_digit_max, ctor_point_max, self_digit_max,
                   self_point_max, zcta_df, digit_max, point_max, readVars,
                   loopVars, storeVars, failures, log>>

\* session.commit(): all rows of the session or, on an exception, none;
\* the except clauses, the rollback and the failure value
DbCommit ==
    /\ pc = "db_commit"
    /\ \E ok \in Outcomes :
         LET op == db_call.op IN
         /\ Spend(ok)
         /\ zip_codes' = IF ok /\ op = "add_zip"
              THEN Append(zip_codes,
                          ZipRow(Len(zip_codes) + 1, FTri.zip, FTri.lat.val,
                                 FTri.lon.val))
              ELSE zip_codes
         /\ zctas' = IF ok /\ op = "add_zcta"
              THEN Append(zctas, ZctaRow(Len(zctas) + 1, Len(zip_codes), FALSE, FALSE))
              ELSE zctas
         /\ zcta_points' = IF ok /\ op = "add_all_zcta_points"
              THEN zcta_points \o PointRows(Len(zcta_points) + 1, Len(zctas), StorePoints)
              ELSE zcta_points
         /\ zcta_boundaries' = IF ok /\ op = "add_zcta_boundary"
              THEN Append(zcta_boundaries,
                          BoxOf(Len(zcta_boundaries) + 1, Len(zctas), StorePoints))
              ELSE zcta_boundaries
         /\ IF ok /\ Refreshes(op)
            THEN /\ pc' = "db_refresh"
                 /\ UNCHANGED <<db_call, log>>
            ELSE /\ pc' = "db_idle"
                 /\ db_call' = [db_call EXCEPT
                       !.value = IF ok THEN SuccessValue(op) ELSE FailureValue(op)]
                 /\ log' = Append(log, Event(op, 0, ok, Len(log) + 1))
    /\ UNCHANGED <<result, entry, state, state_arg, shape_file, source, report,
                   ctor_digit_max, ctor_point_max, self_digit_max,
                   self_point_max, zcta_df, digit_max, point_max, readVars,
                   loopVars>>

\* session.refresh(new) after the commit: the object is returned, or the
\* exception is caught and None returned
DbRefresh ==
    /\ pc = "db_refresh"
    /\ \E ok \in Outcomes :
         /\ Spend(ok)
         /\ db_call' = [db_call EXCEPT
               !.value = IF ok THEN SuccessValue(db_call.op)
                         ELSE FailureValue(db_call.op)]
         /\ log' = Append(log, Event(db_call.op, 0, ok, Len(log) + 1))
    /\ pc' = "db_idle"
    /\ UNCHANGED <<result, entry, state, state_arg, shape_file, source, report,
                   ctor_digit_max, ctor_point_max, self_digit_max,
                   self_point_max, zcta_df, digit_max, point_max, readVars,
                   loopVars, storeVars>>

StoreNext == DbCall \/ DbCommit \/ DbRefresh

InitStore ==
    /\ entry = "store"
    /\ pc = "db_idle"
    /\ state = NoState
    /\ source = << >>
    /\ ctor_digit_max = None
    /\ ctor_point_max = None
    /\ self_digit_max = DEFAULT_DIGIT_MAX
    /\ self_point_max = DEFAULT_POINT_MAX
    /\ zcta_df = NoneFrame
    /\ digit_max = None
    /\ point_max = None
    /\ InitRest

StoreSpec == InitStore /\ [][StoreNext]_vars

\* ------------------------------------------------- filter_df on its own
\* ZIP strings around the bounds of the ranges; one of four characters
ZipStrings ==
    { <<0, 6, 3, 9, 0>>, <<0, 6, 3, 9, 1>>, <<1, 0, 0, 0, 1>>,
      <<1, 4, 9, 7, 5>>, <<1, 4, 9, 7, 6>>, <<3, 5, 0, 0, 4>>,
      <<3, 6, 0, 0, 0>>, <<3, 6, 9, 2, 5>>, <<3, 7, 0, 0, 0>>,
      <<9, 0, 0, 0, 1>>, <<9, 6, 1, 6, 2>>, <<9, 6, 1, 6, 3>>,
      <<9, 0, 0, 1>> }
\* a row with ZIP string z; filter_df reads no other field
ZipFeature(z) == [FTri EXCEPT !.zip = z]
FilterRows ==
    UNION {[1..n -> {ZipFeature(z) : z \in ZipStrings}] : n \in 0..MaxRows}

\* line 437 of get_df_from_shapefile: the frame read is handed to
\* filter_df of the exporter's class
ApplyFilter ==
    /\ pc = "filter"
    /\ zcta_df' = Frame(filter_df(state, source))
    /\ pc' = "filtered"
    /\ UNCHANGED <<result, entry, state, state_arg, shape_file, source, db_call, report,
                   ctor_digit_max, ctor_point_max,
                   self_digit_max, self_point_max, digit_max, point_max,
                   readVars, loopVars, storeVars, failures, log>>

InitFilter ==
    /\ entry = "filter"
    /\ pc = "filter"
    /\ state \in {NoState} \cup DOMAIN STATE_ZIP_RANGES
    /\ source \in FilterRows
    /\ ctor_digit_max = None
    /\ ctor_point_max = None
    /\ self_digit_max = DEFAULT_DIGIT_MAX
    /\ self_point_max = DEFAULT_POINT_MAX
    /\ zcta_df = NoneFrame
    /\ digit_max = None
    /\ point_max = None
    /\ InitRest

FilterSpec == InitFilter /\ [][ApplyFilter]_vars

\* ---------------------------------------------------------------- claims
Range(seq) == {seq[n] : n \in 1..Len(seq)}
Writes == {"add_zcta", "add_all_zcta_points", "add_zcta_boundary"}
Finished == pc \in {"done", "raised"}
\* whether area id has its row, at least one point and at least one box
Stored(id) ==
    /\ \E a \in Range(zctas) : a.zcta_id = id
    /\ \E q \in Range(zcta_points) : q.zcta_id = id
    /\ \E b \in Range(zcta_boundaries) : b.zcta_id = id

\* C1: when add_zcta fails for part 2 of a three-part feature and no other
\* call of that feature fails, then once the feature has been processed the
\* TabulationArea, BoundaryPoint and BoundingBox rows of parts 1 and 3 are
\* in the store.
C1_PartialFailureIsolation ==
    \A e \in Range(log) :
        ( /\ e.op = "add_zcta" /\ e.ring = 0 /\ e.part = 2 /\ ~e.ok
          /\ Len(zcta_df.rows[e.row].geoms) = 3
          /\ current_row >= e.row
          /\ \A w \in Range(log) : (w.row = e.row /\ w.op \in Writes /\ ~w.ok) => w = e )
        => \A p \in {1, 3} :
              \E a \in Range(log) :
                 /\ a.op = "add_zcta" /\ a.row = e.row /\ a.part = p
                 /\ a.ring = 0 /\ a.ok
                 /\ Stored(a.id)

\* C2: every BoundingBox row bounds the BoundaryPoint rows of the
\* TabulationArea it references, in latitude and in longitude, and each of
\* its four extrema is the coordinate of one of those points.
C2_BoundingBoxTight ==
    \A b \in Range(zcta_boundaries) :
        LET P == {q \in Range(zcta_points) : q.zcta_id = b.zcta_id} IN
        /\ \A q \in P : /\ b.min_lat <= q.zcta_point_lat
                        /\ q.zcta_point_lat <= b.max_lat
                        /\ b.min_lon <= q.zcta_point_lon
                        /\ q.zcta_point_lon <= b.max_lon
        /\ \E q \in P : q.zcta_point_lat = b.min_lat
        /\ \E q \in P : q.zcta_point_lat = b.max_lat
        /\ \E q \in P : q.zcta_point_lon = b.min_lon
        /\ \E q \in P : q.zcta_point_lon = b.max_lon

AfterMinimize ==
    pc \in {"add_zcta", "add_points", "add_boundary", "int_zcta", "int_points",
            "int_boundary"}

\* C3: for a point_max that is a positive integer, the polygon minimize_poly
\* returns has at most point_max exterior coordinates, and every exterior
\* TabulationArea in the store has at most point_max BoundaryPoint rows.
C3_VertexBound ==
    point_max # None =>
        /\ AfterMinimize => Len(poly.ext) <= point_max
        /\ \A a \in Range(zctas) :
              ~a.interior =>
                 Cardinality({q \in Range(zcta_points) : q.zcta_id = a.zcta_id})
                    <= point_max

\* reached: a ring that passes of the simplifier shortened has been written
C3_Witness ==
    /\ pc = "add_boundary"
    /\ point_max # None
    /\ tolerance > 0
    /\ Len(poly.ext) < Len(polygons[part].ext)
    /\ \E q \in Range(zcta_points) : q.zcta_id = zcta_obj.id

\* C4: for every polygon and every positive point_max, also one below the
\* size of a closed ring, the loop of minimize_poly ends and returns.
C4_MinimizeTerminates == (pc = "minimize") ~> (pc # "minimize")

\* C5: a finished export has returned, and it has returned False exactly
\* when the feature sequence it was to export was empty.
C5_FalseIffEmpty ==
    Finished =>
        /\ pc = "done"
        /\ result \in {"True", "False"}
        /\ (result = "False") <=> (zcta_df.rows = << >>)

\* C6: no failure inside a feature ends the run: when the run is over, the
\* loop has gone through every feature of the sequence.
C6_FeatureScopedFailure ==
    Finished => current_row = Len(zcta_df.rows)

\* C7: export_shapefile_to_db called without digit_max and point_max stores
\* the centroid rounded to DEFAULT_DIGIT_MAX digits and, when no call fails,
\* the TabulationArea, BoundaryPoint and BoundingBox rows of the feature.
C7_Defaults ==
    (entry = "core" /\ ctor_digit_max = None /\ ctor_point_max = None) =>
        \A e \in Range(log) :
            (e.op = "add_zip" /\ e.ok) =>
               /\ zip_codes[e.id].zip_lat
                     = PyRound(zcta_df.rows[e.row].lat.val, DEFAULT_DIGIT_MAX)
               /\ zip_codes[e.id].zip_lon
                     = PyRound(zcta_df.rows[e.row].lon.val, DEFAULT_DIGIT_MAX)
               /\ (failures = 0 /\ current_row >= e.row) =>
                     \E a \in Range(zctas) :
                        a.zip_code_id = e.id /\ Stored(a.zcta_id)

\* C8: when a chunk read raises in the reader path, get_df_from_shapefile
\* ends by raising to its caller.
C8_ReaderFaultRaises == (rpc = "died") ~> (pc = "raised")

GeometryPcs ==
    {"minimize", "add_zcta", "add_points", "add_boundary", "int_zcta",
     "int_points", "int_boundary"}

\* C9: when add_zip returns None for a feature, no TabulationArea,
\* BoundaryPoint or BoundingBox call is made for that feature and the loop
\* goes on to the progress update and the next feature.
C9_NoOrphanAreas ==
    /\ \A e \in Range(log) :
          (e.op = "add_zip" /\ ~e.ok) =>
             \A w \in Range(log) : w.row = e.row => w.op = "add_zip"
    /\ pc \in GeometryPcs => ~zip_obj.none
    /\ Len(zctas) = Cardinality({n \in 1..Len(log) :
                                    log[n].op = "add_zcta" /\ log[n].ok})

\* reached: add_zip failed for the first feature and the area, points and
\* box of the second feature are stored
C9_Witness ==
    /\ \E e \in Range(log) : e.op = "add_zip" /\ ~e.ok /\ e.row = 1
    /\ \E a \in Range(log) :
          a.op = "add_zcta" /\ a.ok /\ a.row = 2 /\ Stored(a.id)

Ids(table, field) == {table[n][field] : n \in 1..Len(table)}
Added(old, new) == {new[n] : n \in (Len(old) + 1)..Len(new)}

\* C10: in every state each TabulationArea row references a stored ZipCode
\* row and each BoundaryPoint and BoundingBox row a stored TabulationArea
\* row; and every step that adds a TabulationArea row gives it the id of a
\* ZipCode row already stored before the step, and every step that adds
\* BoundaryPoint or BoundingBox rows gives them the id of a TabulationArea
\* row already stored before the step.
C10_Referential ==
    /\ [](/\ \A a \in Range(zctas) :
              a.zip_code_id \in Ids(zip_codes, "zip_code_id")
          /\ \A q \in Range(zcta_points) : q.zcta_id \in Ids(zctas, "zcta_id")
          /\ \A b \in Range(zcta_boundaries) :
              b.zcta_id \in Ids(zctas, "zcta_id"))
    /\ [][ /\ \A a \in Added(zctas, zctas') :
                  a.zip_code_id \in Ids(zip_codes, "zip_code_id")
            /\ \A q \in Added(zcta_points, zcta_points') :
                  q.zcta_id \in Ids(zctas, "zcta_id")
            /\ \A b \in Added(zcta_boundaries, zcta_boundaries') :
                  b.zcta_id \in Ids(zctas, "zcta_id") ]_vars

\* reached: rows of all four tables, an interior area among them
C10_Witness ==
    /\ \E a \in Range(zctas) : a.interior
    /\ \E b \in Range(zcta_boundaries) : \E a \in Range(zctas) :
          a.zcta_id = b.zcta_id /\ a.zip_code_id \in Ids(zip_codes, "zip_code_id")
    /\ \E q \in Range(zcta_points) : \E a \in Range(zctas) :
          a.interior /\ a.zcta_id = q.zcta_id

Count(f, rows) == Cardinality({n \in 1..Len(rows) : rows[n] = f})
Ascending(rows) ==
    \A n \in 1..(Len(rows) - 1) : StrLeq(rows[n].zip, rows[n + 1].zip)
InRange(z, st) ==
    \E r \in 1..Len(STATE_ZIP_RANGES[st]) :
        /\ StrLeq(STATE_ZIP_RANGES[st][r][1], z)
        /\ StrLeq(z, STATE_ZIP_RANGES[st][r][2])
Zips(rows) == {rows[n].zip : n \in 1..Len(rows)}

\* C11: StateShapeFileToDB.filter_df keeps a row exactly when its ZIP
\* string lies, as a string, in one of the state's closed ranges, keeps it
\* as often as the input holds it, and returns the rows in ascending ZIP
\* order; 36000 is in Alabama's range and 37000 is not, 06390 and 10001 are
\* New York's, and the four-character 9001 lies between 90001 and 96162.
C11_RangeFilter ==
    (pc = "filtered" /\ state # NoState) =>
        /\ \A f \in Range(source) \cup Range(zcta_df.rows) :
              Count(f, zcta_df.rows)
                 = IF InRange(f.zip, state) THEN Count(f, source) ELSE 0
        /\ Ascending(zcta_df.rows)
        /\ state = "AL" =>
              /\ <<3, 7, 0, 0, 0>> \notin Zips(zcta_df.rows)
              /\ <<3, 6, 0, 0, 0>> \in Zips(source)
                    => <<3, 6, 0, 0, 0>> \in Zips(zcta_df.rows)
        /\ state = "NY" =>
              /\ Zips(source) \cap {<<0, 6, 3, 9, 0>>, <<1, 0, 0, 0, 1>>}
                    \subseteq Zips(zcta_df.rows)
              /\ <<0, 6, 3, 9, 1>> \notin Zips(zcta_df.rows)
        /\ state = "CA" =>
              /\ Zips(source) \cap {<<9, 0, 0, 0, 1>>, <<9, 6, 1, 6, 2>>, <<9, 0, 0, 1>>}
                    \subseteq Zips(zcta_df.rows)
              /\ <<9, 6, 1, 6, 3>> \notin Zips(zcta_df.rows)

\* reached: Alabama's filter dropped 37000 and kept 36000
C11_Witness ==
    /\ pc = "filtered"
    /\ state = "AL"
    /\ Zips(source) = {<<3, 7, 0, 0, 0>>, <<3, 6, 0, 0, 0>>}
    /\ Zips(zcta_df.rows) = {<<3, 6, 0, 0, 0>>}

\* C12: ShapeFileToDB.filter_df returns a permutation of its input, no row
\* dropped, added or doubled, in ascending order of the ZIP string.
C12_UnfilteredSort ==
    (pc = "filtered" /\ state = NoState) =>
        /\ Len(zcta_df.rows) = Len(source)
        /\ \A f \in Range(source) \cup Range(zcta_df.rows) :
              Count(f, zcta_df.rows) = Count(f, source)
        /\ Ascending(zcta_df.rows)

\* reached: an input out of order, sorted
C12_Witness ==
    /\ pc = "filtered"
    /\ state = NoState
    /\ Len(source) = MaxRows
    /\ ~Ascending(source)
    /\ zcta_df.rows # source

ValidZipArea(f) ==
    /\ f.area.MTFCC20 = ZIP_FEATURE_CODE
    /\ f.area.CLASSFP20 = ZIP_CLASS
    /\ f.area.FUNCSTAT20 = ZIP_STATUS
\* the rows the run was given: the frame of a direct call, else the file
GivenRows == IF entry = "direct" THEN zcta_df.rows ELSE source

\* C13: a row whose classification fields are not G6350, B5 and S is not
\* exported: no ZipCode row of the store carries the ZIP of such a row.
C13_ClassificationFilter ==
    \A z \in Range(zip_codes) :
        \A f \in Range(GivenRows) : f.zip = z.zip_code => ValidZipArea(f)

\* the calls of gpd.read_file so far, in order; id is the offset of the window
Reads == SelectSeq(log, LAMBDA e : e.op = "read_file")
ReaderRuns == rpc \in {"loop", "clear_timer", "done"}
ReaderStopped == rpc \in {"clear_timer", "done"} \/ (rpc = "loop" /\ ~reading)

RECURSIVE ReadAlone(_, _, _)
ReadAlone(rows, offset, frame) ==
    IF offset >= Len(rows) THEN frame
    ELSE ReadAlone(rows, offset + ROW_INCREMENT,
                   frame \o [n \in 1..(IF offset + ROW_INCREMENT < Len(rows)
                                        THEN ROW_INCREMENT
                                        ELSE Len(rows) - offset)
                               |-> rows[offset + n]])
AloneValue ==
    IF ReadAlone(source, 0, << >>) = << >> THEN FalseValue
    ELSE Frame(filter_df(state, ReadAlone(source, 0, << >>)))

\* C15: whatever the display path did meanwhile, the value
\* get_df_from_shapefile returns is the one a reader running alone yields.
C15_DisplayNeutral ==
    /\ pc = "joined" => GetDfValue = AloneValue
    /\ (entry \in {"export", "core"}
          /\ pc \notin {"start", "set_reading", "join_read", "join_timer", "joined"})
          => zcta_df = AloneValue

\* reached: a read of a full frame during which the display path polled
C15_Witness ==
    /\ pc = "joined"
    /\ elapsed_set
    /\ tpc = "done"
    /\ Len(shape_df.rows) = MaxRows

\* C19: in every interleaving of the reader and the display path, also
\* when the flag is cleared before the first turn of the polling loop,
\* _read_timer ends without raising.
C19_DisplayEndsNormally == tpc # "died"

Consumed ==
    /\ entry \in {"export", "core"}
    /\ pc \notin {"start", "set_reading", "join_read", "join_timer"}

\* C20: when get_df_from_shapefile takes self.shape_df, the reader path has
\* cleared self.reading and self.timer and has ended, and the display path
\* has ended: both joins have returned.
C20_ConsumedAfterJoin ==
    Consumed => /\ rpc = "done"
                /\ ~reading
                /\ ~timer
                /\ tpc \in {"done", "died"}

\* reached: the frame is taken after a read of a full file
C20_Witness ==
    /\ pc = "joined"
    /\ rpc = "done"
    /\ shape_df.rows = source
    /\ Len(source) = MaxRows

\* the spellings of the keys of STATE_ZIP_RANGES in any letter case
Spelled ==
    {<<"a", "l">>, <<"a", "L">>, <<"A", "l">>, <<"A", "L">>,
     <<"c", "a">>, <<"c", "A">>, <<"C", "a">>, <<"C", "A">>,
     <<"n", "y">>, <<"n", "Y">>, <<"N", "y">>, <<"N", "Y">>}
ValidSelector == state_arg.kind = "str" /\ state_arg.text \in Spelled
\* None is the documented "all states" argument of export_shapefile_to_db
AllStates == entry = "core" /\ state_arg = NoneArg
SelectorSettled == pc \notin {"core_entry", "state_init"}
NothingStarted ==
    /\ log = << >>
    /\ rpc = "idle"
    /\ tpc = "idle"
    /\ zip_codes = << >>

\* C16: a state argument that is not a string, or whose upper-cased value
\* is not a key of STATE_ZIP_RANGES, ends the construction with ValueError
\* before the shapefile is checked, a chunk is read or a row is written;
\* a valid abbreviation in any letter case is accepted and selects its key.
C16_InvalidSelector ==
    SelectorSettled =>
        /\ (~ValidSelector /\ ~AllStates)
              => pc = "raised" /\ result = "ValueError" /\ NothingStarted
        /\ ValidSelector
              => result # "ValueError" /\ KeyChars(state) = upper(state_arg.text)

\* C17: no two ZipCode rows carry the same code, and after an export in
\* which no write was rejected every ZIP of the exported frame has its row.
C17_OneRowPerZip ==
    /\ \A m, n \in 1..Len(zip_codes) :
          zip_codes[m].zip_code = zip_codes[n].zip_code => m = n
    /\ (pc = "done" /\ failures = 0 /\ IsFrame(zcta_df))
          => \A f \in Range(zcta_df.rows) :
                \E z \in Range(zip_codes) : z.zip_code = f.zip

Checks == SelectSeq(log, LAMBDA e : e.op = "check_shapefile")
NoBlank(chars) == SelectSeq(chars, LAMBDA c : c # " ")
IsShp(chars) ==
    /\ Len(chars) = 4
    /\ chars[1] = "."
    /\ chars[2] \in {"s", "S"}
    /\ chars[3] \in {"h", "H"}
    /\ chars[4] \in {"p", "P"}
ReadStarted == rpc # "idle" \/ \E e \in Range(log) : e.op = "read_file"
\* what the constructor does with a shapefile of which Accepted says
\* whether it is a valid one
CheckedAs(Accepted) ==
    /\ Checks # << >> =>
          /\ Len(Checks) = 1
          /\ Checks[1].ok <=> Accepted
          /\ ~Checks[1].ok
                => pc = "raised" /\ result = "FileNotFoundError" /\ ~ReadStarted
    /\ ReadStarted => Checks # << >> /\ Accepted

PartDone(r, p) ==
    \/ current_row >= r
    \/ current_row + 1 = r /\ (part > p \/ pc = "progress")
PartClean(r, p) ==
    \A w \in Range(log) : (w.row = r /\ w.part = p) => w.ok
Boxes(id) == {b \in Range(zcta_boundaries) : b.zcta_id = id}
Points(id) == {q \in Range(zcta_points) : q.zcta_id = id}

\* C21: the points of an interior ring are stored under the id of the
\* interior TabulationArea created for it, its BoundingBox under the id of
\* the exterior TabulationArea of the part: no interior area has a box, and
\* once a part with k holes is persisted its exterior area has 1 + k boxes.
C21_InteriorBoxOnExterior ==
    /\ \A a \in Range(zctas) : a.interior => Boxes(a.zcta_id) = {}
    /\ \A e \in Range(log) :
          (e.ring > 0 /\ e.ok /\ e.op = "add_all_zcta_points")
             => zctas[e.id].interior /\ Points(e.id) # {}
    /\ \A e \in Range(log) :
          (e.ring > 0 /\ e.ok /\ e.op = "add_zcta_boundary")
             => ~zctas[e.id].interior
    /\ \A e \in Range(log) :
          ( /\ e.op = "add_zcta" /\ e.ring = 0 /\ e.ok
            /\ PartDone(e.row, e.part) /\ PartClean(e.row, e.part) )
          => Cardinality(Boxes(e.id))
                = 1 + Len(zcta_df.rows[e.row].geoms[e.part].ints)

\* reached: a part with a hole is persisted; its exterior area has two boxes
C21_Witness ==
    /\ pc = "done"
    /\ \E a \in Range(zctas) : a.interior /\ Points(a.zcta_id) # {}
    /\ \E a \in Range(zctas) : ~a.interior /\ Cardinality(Boxes(a.zcta_id)) = 2

StoreOps == {"add_zip"} \cup Writes

\* C22: the features are persisted in the order of the sorted frame, one
\* after the other, so that the ZipCode rows are in ascending ZIP order;
\* within a feature add_zip comes before every add_zcta, and for every ring
\* add_zcta is followed by add_all_zcta_points for the area it created and
\* that by add_zcta_boundary for the same ring.
C22_ProcessingOrder ==
    /\ \A n \in 1..(Len(zip_codes) - 1) :
          StrLeq(zip_codes[n].zip_code, zip_codes[n + 1].zip_code)
    /\ \A m, n \in 1..Len(log) :
          (m < n /\ log[m].op \in StoreOps /\ log[n].op \in StoreOps)
             => /\ log[m].row <= log[n].row
                /\ log[n].op = "add_zip" => log[m].row < log[n].row
    /\ \A n \in 1..Len(log) :
          /\ log[n].op = "add_zcta" =>
                \E m \in 1..(n - 1) :
                    log[m].op = "add_zip" /\ log[m].row = log[n].row /\ log[m].ok
          /\ log[n].op = "add_all_zcta_points" =>
                /\ n > 1
                /\ log[n - 1].op = "add_zcta" /\ log[n - 1].ok
                /\ log[n - 1].id = log[n].id
                /\ <<log[n - 1].row, log[n - 1].part, log[n - 1].ring>>
                      = <<log[n].row, log[n].part, log[n].ring>>
          /\ log[n].op = "add_zcta_boundary" =>
                /\ n > 1
                /\ log[n - 1].op = "add_all_zcta_points"
                /\ <<log[n - 1].row, log[n - 1].part, log[n - 1].ring>>
                      = <<log[n].row, log[n].part, log[n].ring>>

\* reached: a shapefile whose rows are not in ZIP order has been exported
\* with the rows of both features stored
C22_Witness ==
    /\ pc = "done"
    /\ Len(source) = 2
    /\ StrLess(source[2].zip, source[1].zip)
    /\ Len(zip_codes) = 2
    /\ \A z \in Range(zip_codes) :
          \E a \in Range(zctas) : a.zip_code_id = z.zip_code_id /\ Stored(a.zcta_id)

\* C23: every TabulationArea row, exterior or interior, has multi true
\* exactly when the geometry of its feature has more than one polygon part;
\* a MultiPolygon of one part gives multi false.
C23_MultiFlag ==
    \A e \in Range(log) :
        (e.op = "add_zcta" /\ e.ok)
           => (zctas[e.id].multi <=> Len(zcta_df.rows[e.row].geoms) > 1)

AreasOf(zip_id) == {a \in Range(zctas) : a.zip_code_id = zip_id}
Holes(geoms) ==
    UNION {{<<p, h>> : h \in 1..Len(geoms[p].ints)} : p \in 1..Len(geoms)}
\* the feature of row r has been gone through and no store call of it failed
FeatureClean(r) ==
    /\ current_row >= r
    /\ \A w \in Range(log) : (w.row = r /\ w.op \in StoreOps) => w.ok

\* C24: a feature whose ZipCode row was stored and none of whose writes
\* was rejected has, once it is processed, one exterior TabulationArea per
\* polygon part and one interior TabulationArea per hole, all with the id
\* of its ZipCode row; a single polygon without holes has one area, with
\* interior and multi false, and one BoundingBox.
C24_AreaCount ==
    \A e \in Range(log) :
        (e.op = "add_zip" /\ e.ok /\ FeatureClean(e.row)) =>
            LET row == zcta_df.rows[e.row] IN
            /\ Cardinality({a \in AreasOf(e.id) : ~a.interior}) = Len(row.geoms)
            /\ Cardinality({a \in AreasOf(e.id) : a.interior})
                  = Cardinality(Holes(row.geoms))
            /\ (~row.multipolygon /\ Holes(row.geoms) = {}) =>
                  \E a \in AreasOf(e.id) :
                      /\ AreasOf(e.id) = {a}
                      /\ ~a.interior /\ ~a.multi
                      /\ Cardinality(Boxes(a.zcta_id)) = 1

\* x is a value rounded to ndigits decimal digits (None: to whole degrees)
Rounded(x, ndigits) ==
    x % Pow10(Scale - (IF ndigits = None THEN 0 ELSE ndigits)) = 0

\* C25: in one call of export_shapedf_to_db every stored centroid, every
\* stored point of an exterior or interior ring and every extremum of a
\* stored box is rounded to the digit_max argument of the call, whatever
\* the exporter's own digit_max attribute is.
C25_UniformRounding ==
    /\ \A z \in Range(zip_codes) :
          Rounded(z.zip_lat, digit_max) /\ Rounded(z.zip_lon, digit_max)
    /\ \A q \in Range(zcta_points) :
          /\ Rounded(q.zcta_point_lat, digit_max)
          /\ Rounded(q.zcta_point_lon, digit_max)
    /\ \A b \in Range(zcta_boundaries) :
          /\ Rounded(b.min_lat, digit_max) /\ Rounded(b.max_lat, digit_max)
          /\ Rounded(b.min_lon, digit_max) /\ Rounded(b.max_lon, digit_max)

\* the BoundaryPoint rows of area id, in insertion order
PointSeq(id) == SelectSeq(zcta_points, LAMBDA q : q.zcta_id = id)
\* the rows table holds after the first k
NewRows(old, new) == SubSeq(new, Len(old) + 1, Len(new))
\* rows are the points of ring, in ring order, rounded to ndigits, with x
\* stored as longitude and y as latitude
StoresRing(rows, ring, ndigits) ==
    /\ Len(rows) = Len(ring)
    /\ \A n \in 1..Len(ring) :
          /\ rows[n].zcta_point_lon = PyRound(Lon(ring[n]), ndigits)
          /\ rows[n].zcta_point_lat = PyRound(Lat(ring[n]), ndigits)

\* C26: the BoundaryPoint rows of a TabulationArea have increasing ids in
\* insertion order and their first and last points are equal; and the step
\* that stores them stores the rounded coordinates of the ring being
\* written (the exterior ring of the minimized part, or its current hole)
\* in ring order, x as longitude and y as latitude, under one area id.
C26_PointOrder ==
    /\ [](/\ \A n \in 1..Len(zcta_points) : zcta_points[n].zcta_point_id = n
          /\ \A a \in Range(zctas) :
                LET pts == PointSeq(a.zcta_id) IN
                pts # << >> =>
                   /\ pts[1].zcta_point_lat = pts[Len(pts)].zcta_point_lat
                   /\ pts[1].zcta_point_lon = pts[Len(pts)].zcta_point_lon)
    /\ [][ zcta_points' # zcta_points =>
             LET rows == NewRows(zcta_points, zcta_points')
                 ring == IF pc = "add_points" THEN poly.ext ELSE poly.ints[hole]
                 area == IF pc = "add_points" THEN zcta_obj.id ELSE zcta_int_obj.id
             IN  /\ SubSeq(zcta_points', 1, Len(zcta_points)) = zcta_points
                 /\ \A n \in 1..Len(rows) : rows[n].zcta_id = area
                 /\ PointSeq(area) = << >>
                 /\ \E ndigits \in {digit_max, self_digit_max} :
                       StoresRing(rows, ring, ndigits) ]_vars

\* reached: the three corners of a triangle are stored, closed, with
\* longitudes that differ from the latitudes
C26_Witness ==
    /\ pc = "done"
    /\ \E a \in Range(zctas) :
          /\ Len(PointSeq(a.zcta_id)) = 4
          /\ \E n \in 1..4 : PointSeq(a.zcta_id)[n].zcta_point_lat
                                # PointSeq(a.zcta_id)[n].zcta_point_lon
          /\ PointSeq(a.zcta_id)[1] # PointSeq(a.zcta_id)[2]

\* the rows table holds more than it held before the call
Grown(n) == NewRows(db_call.before[n], Tables[n])
Kept(n) == SubSeq(Tables[n], 1, Len(db_call.before[n])) = db_call.before[n]
TableOf(op) == CASE op = "add_zip" -> 1 [] op = "add_zcta" -> 2
                 [] op = "add_all_zcta_points" -> 3 [] op = "add_zcta_boundary" -> 4

\* C27: a call of add_zip, add_zcta, add_all_zcta_points or
\* add_zcta_boundary that has returned did not raise, and either returned
\* the created record (True for the points) with all of its rows added to
\* its table and nothing else changed, or returned None (False) with the
\* store exactly as it was before the call.
C27_AtomicWrites ==
    (pc = "db_idle" /\ db_call.op # "none") =>
        /\ result = "none"
        /\ \A n \in 1..4 : Kept(n)
        /\ \A n \in 1..4 : n # TableOf(db_call.op) => Grown(n) = << >>
        /\ \/ /\ db_call.value = SuccessValue(db_call.op)
              /\ Len(Grown(TableOf(db_call.op)))
                    = IF db_call.op = "add_all_zcta_points" THEN Len(StorePoints) ELSE 1
           \/ /\ db_call.value = FailureValue(db_call.op)
              /\ Tables = db_call.before

\* the number a field of the report shows
RECURSIVE FieldValue(_)
FieldValue(digits) ==
    IF digits = << >> THEN 0
    ELSE 10 * FieldValue(SubSeq(digits, 1, Len(digits) - 1)) + digits[Len(digits)]
Zero == << <<0, 0>>, <<0, 0>>, <<0, 0>> >>
\* fields is HH:MM:SS for a time of t seconds
ShowsSeconds(fields, t) ==
    /\ Len(fields) = 3
    /\ \A n \in 1..3 : Len(fields[n]) >= 2
    /\ \A n \in 1..3 : \A k \in 1..Len(fields[n]) : fields[n][k] \in 0..9
    /\ FieldValue(fields[2]) < 60
    /\ FieldValue(fields[3]) < 60
    /\ 3600 * FieldValue(fields[1]) + 60 * FieldValue(fields[2])
          + FieldValue(fields[3]) = t

\* C28: _get_time_remaining returns 00:00:00 when rows_done is 0, and
\* otherwise the whole seconds of (total_rows - rows_done) / rows_done *
\* elapsed_seconds as HH:MM:SS, which is 00:00:00 when rows_done equals
\* total_rows; and an export that returns True has counted every feature
\* of the frame for its final report, also when features failed.
C28_TimeRemaining ==
    /\ pc = "estimated" =>
          /\ report.rows_done = 0 => report.remaining = Zero
          /\ report.rows_done = report.total_rows => report.remaining = Zero
          /\ report.rows_done > 0 =>
                \E t \in 0..((report.total_rows - report.rows_done)
                               * report.elapsed_seconds) :
                   /\ t * report.rows_done
                         <= (report.total_rows - report.rows_done)
                              * report.elapsed_seconds
                   /\ (t + 1) * report.rows_done
                         > (report.total_rows - report.rows_done)
                              * report.elapsed_seconds
                   /\ ShowsSeconds(report.remaining, t)
    /\ (pc = "done" /\ result = "True") => current_row = Len(zcta_df.rows)

\* reached: one row of three done after 3599 seconds shows 01:59:58
C28_Witness ==
    /\ pc = "estimated"
    /\ report.rows_done = 1
    /\ report.total_rows = 3
    /\ report.elapsed_seconds = 3599
    /\ report.remaining = << <<0, 1>>, <<5, 9>>, <<5, 8>> >>

\* C29: a BoundingBox row is written for a ring only after the
\* BoundaryPoint rows of that ring were stored: every successful
\* add_zcta_boundary follows a successful add_all_zcta_points for the same
\* ring.
C29_BoxNeedsPoints ==
    \A b \in Range(log) :
        (b.op = "add_zcta_boundary" /\ b.ok) =>
            \E q \in Range(log) :
                /\ q.op = "add_all_zcta_points" /\ q.ok
                /\ <<q.row, q.part, q.ring>> = <<b.row, b.part, b.ring>>

\* C30: minimize_poly starts from the polygon it was given with tolerance
\* 0 and returns it as it is when its exterior ring has at most point_max
\* coordinates; a pass simplifies the polygon of the pass before with the
\* current tolerance and then raises the tolerance by one step of 0.0001;
\* returning changes neither the polygon nor the tolerance.
C30_MinimizeFrame ==
    /\ []((pc = "minimize" /\ tolerance = 0) => poly = polygons[part])
    /\ []((AfterMinimize /\ point_max # None
             /\ Len(polygons[part].ext) <= point_max)
            => poly = polygons[part] /\ tolerance = 0)
    /\ [][ /\ (pc = "minimize" /\ pc' = "minimize") =>
                 /\ Len(poly.ext) > point_max
                 /\ poly' = simplify(poly, tolerance)
                 /\ (tolerance <= TolCap => tolerance' = tolerance + 1)
           /\ (pc = "minimize" /\ pc' = "add_zcta") =>
                /\ Len(poly.ext) <= point_max
                /\ poly' = poly
                /\ tolerance' = tolerance ]_vars

\* reached: a triangle within the bound was returned as it was given, and
\* written
C30_Witness ==
    /\ pc = "add_boundary"
    /\ point_max # None
    /\ Len(polygons[part].ext) <= point_max
    /\ tolerance = 0
    /\ poly = polygons[part]
    /\ \E q \in Range(zcta_points) : q.zcta_id = zcta_obj.id

====
